---- MODULE Spec2Model ----
(***************************************************************************)
(* A model of migrate_stories.py: the parser of the epic / user-story      *)
(* document (parse_user_stories), the writer of one task file              *)
(* (create_task_file) and the driver (main) that clears the destination    *)
(* directory, parses the source and emits one file per epic and per story. *)
(*                                                                         *)
(* Text is modelled as it is in the program: a string is a sequence of     *)
(* one-character strings, a document is the sequence of its lines          *)
(* (content.split('\n')), and the regular expressions, strip(), join(),    *)
(* split() and replace() are computed character by character.              *)
(***************************************************************************)
EXTENDS Integers, Sequences, FiniteSets, TLC

VARIABLES
    file,           \* the lines of plans/user_stories.md (when it exists)
    sourceExists,   \* whether plans/user_stories.md exists
    destExists,     \* whether backlog/tasks exists
    fs,             \* backlog/tasks: file name -> file record
    clock,          \* datetime.datetime.now(), in minutes
    pc,             \* the position of the control flow of main
    lines,          \* parse_user_stories: lines
    i,              \* parse_user_stories: i (0-based, as in the code)
    epics,          \* parse_user_stories: epics
    current_epic,   \* parse_user_stories: current_epic, as the 1-based position
                    \* in epics of the dict it refers to; 0 is None
    story,          \* parse_user_stories: the story whose content is captured
    task_counter,   \* main: task_counter
    epic_ix,        \* main: the position of "for epic in epics"
    story_ix,       \* main: the position of "for story in epic['stories']"
    epic_id,        \* main: epic_id
    log,            \* what main printed: one entry per "Created ..." line
    scanned,        \* history: the values of i at which the outer loop read lines[i]
    run,            \* history: how many times main has been started
    fs0,            \* history: backlog/tasks when this run of main started
    snapshot        \* history: backlog/tasks when the previous run of main ended

vars == <<file, sourceExists, destExists, fs, clock, pc, lines, i, epics,
          current_epic, story, task_counter, epic_ix, story_ix, epic_id, log,
          scanned, run, fs0, snapshot>>

-----------------------------------------------------------------------------
(* Bounds of the model.                                                    *)

\* The longest source document, in lines.
MaxLines == 4
\* The longest story body, in lines, of the documents of BodySpec.
MaxBody == 4
\* How many times main is run on the same document.
MaxRuns == 2

-----------------------------------------------------------------------------
(* Strings.                                                                *)

NL == "\n"

\* str.strip() and the regular expressions' \s: whitespace.
IsSpace(c) == c \in {" ", "\t", NL}

\* The regular expressions' \w.
IsWord(c) ==
    c \in {"a", "b", "c", "d", "e", "f", "g", "h", "i", "j", "k", "l", "m",
           "n", "o", "p", "q", "r", "s", "t", "u", "v", "w", "x", "y", "z",
           "A", "B", "C", "D", "E", "F", "G", "H", "I", "J", "K", "L", "M",
           "N", "O", "P", "Q", "R", "S", "T", "U", "V", "W", "X", "Y", "Z",
           "0", "1", "2", "3", "4", "5", "6", "7", "8", "9", "_"}

\* s[from:] of Python, with from 1-based.
From(s, k) == SubSeq(s, k, Len(s))

\* s.startswith(p)
StartsWith(s, p) == Len(s) >= Len(p) /\ SubSeq(s, 1, Len(p)) = p

\* s.endswith(p)
EndsWith(s, p) == Len(s) >= Len(p) /\ From(s, Len(s) - Len(p) + 1) = p

\* The places where p occurs in s.
Occurrences(s, p) ==
    {k \in 1..(Len(s) - Len(p) + 1) : SubSeq(s, k, k + Len(p) - 1) = p}

\* p in s
Contains(s, p) == Occurrences(s, p) # {}

\* s.replace(old, new, 1): the first occurrence of old replaced by new.
ReplaceFirst(s, old, new) ==
    IF Occurrences(s, old) = {} THEN s
    ELSE LET k == CHOOSE m \in Occurrences(s, old) :
                      \A n \in Occurrences(s, old) : m <= n
         IN SubSeq(s, 1, k - 1) \o new \o From(s, k + Len(old))

RECURSIVE LStrip(_)
LStrip(s) ==
    IF s = <<>> THEN s
    ELSE IF IsSpace(Head(s)) THEN LStrip(Tail(s)) ELSE s

RECURSIVE RStrip(_)
RStrip(s) ==
    IF s = <<>> THEN s
    ELSE IF IsSpace(s[Len(s)]) THEN RStrip(SubSeq(s, 1, Len(s) - 1)) ELSE s

\* s.strip()
Strip(s) == RStrip(LStrip(s))

\* '\n'.join(ls)
RECURSIVE Join(_)
Join(ls) ==
    IF ls = <<>> THEN <<>>
    ELSE IF Len(ls) = 1 THEN ls[1]
    ELSE ls[1] \o <<NL>> \o Join(Tail(ls))

\* text.split('\n'): at least one line, also of the empty text.
RECURSIVE Split(_)
Split(text) ==
    IF Occurrences(text, <<NL>>) = {} THEN <<text>>
    ELSE LET k == CHOOSE m \in Occurrences(text, <<NL>>) :
                      \A n \in Occurrences(text, <<NL>>) : m <= n
         IN <<SubSeq(text, 1, k - 1)>> \o Split(From(text, k + 1))

\* The longest prefix of s made of the characters of [\w-].
RECURSIVE WordRun(_)
WordRun(s) ==
    IF s # <<>> /\ (IsWord(Head(s)) \/ Head(s) = "-")
    THEN <<Head(s)>> \o WordRun(Tail(s))
    ELSE <<>>

Digit(d) == <<"0", "1", "2", "3", "4", "5", "6", "7", "8", "9">>[d + 1]

\* str(n) of a natural number.
RECURSIVE IntToStr(_)
IntToStr(n) ==
    IF n < 10 THEN <<Digit(n)>> ELSE IntToStr(n \div 10) \o <<Digit(n % 10)>>

-----------------------------------------------------------------------------
(* The literals of the program.                                            *)

TableOfContents ==
    <<"T", "a", "b", "l", "e", " ", "o", "f", " ",
      "C", "o", "n", "t", "e", "n", "t", "s">>
Appendix == <<"A", "p", "p", "e", "n", "d", "i", "x">>
AcMarker ==
    <<"*", "*", "A", "c", "c", "e", "p", "t", "a", "n", "c", "e", " ",
      "C", "r", "i", "t", "e", "r", "i", "a", ":", "*", "*">>
AcHeading ==
    <<"#", "#", " ", "A", "c", "c", "e", "p", "t", "a", "n", "c", "e", " ",
      "C", "r", "i", "t", "e", "r", "i", "a">>
Bullet == <<"-", " ">>
CheckItem == <<"-", " ", "[", " ", "]", " ">>
EpicBody ==
    <<"P", "a", "r", "e", "n", "t", " ", "E", "p", "i", "c", " ", "f", "o", "r",
      " ", "r", "e", "l", "a", "t", "e", "d", " ", "u", "s", "e", "r", " ",
      "s", "t", "o", "r", "i", "e", "s", ".">>
TaskPrefix == <<"t", "a", "s", "k", "-">>
MdSuffix == <<".", "m", "d">>
\* The characters create_task_file removes from a title to name the file.
FilenameBad == {"\\", "/", "*", "?", ":", "\"", "<", ">", "|"}

\* None, and a value that is not None, of an optional argument.
None == <<>>
Some(v) == <<v>>
\* The truth value Python gives an optional integer: None and 0 are false.
Truthy(v) == v # None /\ v[1] # 0

-----------------------------------------------------------------------------
(* parse_user_stories: the two regular expressions and the capture test.   *)

\* re.match(r'^##\s+(.*)', line)
EpicMatch(line) ==
    /\ StartsWith(line, <<"#", "#">>)
    /\ Len(line) >= 3
    /\ IsSpace(line[3])

\* epic_match.group(1): what follows the whitespace.
EpicGroup1(line) == LStrip(From(line, 3))

\* 'Table of Contents' in line: the test of 'Appendix' is missing.
ExcludedContentsOnly(line) == Contains(line, TableOfContents)

\* 'Table of Contents' in line or 'Appendix' in line
Excluded(line) == Contains(line, TableOfContents) \/ Contains(line, Appendix)

\* What follows '###' and the whitespace after it.
AfterHashes(line) == LStrip(From(line, 4))

\* story_match.group(2): US-[\w-]+
StoryGroup2(line) ==
    <<"U", "S", "-">> \o WordRun(From(AfterHashes(line), 4))

\* What follows group 2 in the line.
AfterCode(line) == From(AfterHashes(line), Len(StoryGroup2(line)) + 1)

\* re.match(r'^###\s+((US-[\w-]+):\s+(.*))', line)
StoryMatch(line) ==
    /\ StartsWith(line, <<"#", "#", "#">>)
    /\ Len(line) >= 4
    /\ IsSpace(line[4])
    /\ StartsWith(AfterHashes(line), <<"U", "S", "-">>)
    /\ Len(StoryGroup2(line)) >= 4
    /\ Len(AfterCode(line)) >= 2
    /\ AfterCode(line)[1] = ":"
    /\ IsSpace(AfterCode(line)[2])

\* story_match.group(3): what follows the colon and the whitespace.
StoryGroup3(line) == LStrip(From(AfterCode(line), 2))

\* next_line.startswith('## '): only a level-2 heading ends the capture.
IsHeaderLevel2Only(next_line) == StartsWith(next_line, <<"#", "#", " ">>)

\* next_line.startswith('##') or next_line.startswith('###')
IsHeader(next_line) ==
    StartsWith(next_line, <<"#", "#">>) \/ StartsWith(next_line, <<"#", "#", "#">>)

\* A level-3 line of the story shape opens an epic of its own.
BeginsStoryAnywhere(line, current) == StoryMatch(line)

\* if story_match and current_epic
BeginsStory(line, current) == StoryMatch(line) /\ current # 0

\* The value of the variable story while no story is being captured.
NoStory == [id_code |-> <<>>, title |-> <<>>, content |-> <<>>, at |-> 0]

-----------------------------------------------------------------------------
(* main: the body transformation of one story (lines 119-139).             *)

\* in_ac_section is reset by a line that is no bullet.
NextModeUntilText(line, in_ac_section) ==
    \/ Contains(line, AcMarker)
    \/ in_ac_section /\ StartsWith(Strip(line), Bullet)

\* in_ac_section after the loop has handled line.
NextMode(line, in_ac_section) ==
    in_ac_section \/ Contains(line, AcMarker)

\* What the loop appends to processed_lines for line.
ProcessLine(line, in_ac_section) ==
    IF Contains(line, AcMarker) THEN AcHeading
    ELSE IF in_ac_section /\ StartsWith(Strip(line), Bullet)
         THEN ReplaceFirst(line, Bullet, CheckItem)
         ELSE line

\* processed_lines, from the lines still to handle and in_ac_section.
RECURSIVE ProcessLines(_, _)
ProcessLines(ls, in_ac_section) ==
    IF ls = <<>> THEN <<>>
    ELSE <<ProcessLine(Head(ls), in_ac_section)>>
         \o ProcessLines(Tail(ls), NextMode(Head(ls), in_ac_section))

\* '\n'.join(story['content']).strip().split('\n')
TrimmedLines(content) == Split(Strip(Join(content)))

\* story_text as it is passed to create_task_file.
StoryText(content) == Join(ProcessLines(TrimmedLines(content), FALSE))

\* story_id = epic_id + 1: every story of an epic gets the same identifier.
StoryIdFromEpic(counter, parent_id) == parent_id + 1

\* story_id = task_counter
StoryId(counter, parent_id) == counter

\* full_title
FullTitle(st) == st.id_code \o <<" ">> \o st.title

-----------------------------------------------------------------------------
(* create_task_file.                                                       *)

\* filename
TaskFilename(task_id, title) ==
    TaskPrefix \o IntToStr(task_id) \o <<" ", "-", " ">>
    \o SelectSeq(title, LAMBDA c : c \notin FilenameBad) \o MdSuffix

\* What is written to the file: the fields of the front matter, and the body.
TaskRecord(task_id, title, content, status, parent, is_epic, now) ==
    [id           |-> task_id,
     title        |-> title,
     status       |-> status,
     created_date |-> now,
     labels       |-> IF is_epic THEN <<"Epic">> ELSE <<>>,
     parent       |-> IF Truthy(parent) THEN parent ELSE None,
     body         |-> content]

\* The directory after open(filepath, 'w') and the writes.
create_task_file(dir, task_id, title, content, status, parent, is_epic, now) ==
    LET filename == TaskFilename(task_id, title)
    IN [f \in (DOMAIN dir) \cup {filename} |->
            IF f = filename
            THEN TaskRecord(task_id, title, content, status, parent, is_epic, now)
            ELSE dir[f]]

\* f.startswith("task_") and f.endswith(".md"): the prefix is mistyped.
IsTaskFileTypo(f) ==
    StartsWith(f, <<"t", "a", "s", "k", "_">>) /\ EndsWith(f, MdSuffix)

\* f.startswith("task-") and f.endswith(".md")
IsTaskFile(f) == StartsWith(f, TaskPrefix) /\ EndsWith(f, MdSuffix)

\* The loop of removals without its test: every file is removed.
ClearDestAll(dir) == [f \in {} |-> dir[f]]

\* The directory after the loop of removals.
ClearDest(dir) == [f \in {g \in DOMAIN dir : ~IsTaskFile(g)} |-> dir[f]]

\* task_counter = 0: the first epic gets the identifier 0.
CounterFromZero == 1 - 1

\* task_counter = 1
InitialCounter == 1

-----------------------------------------------------------------------------
(* The inputs.                                                             *)

LineEpic == <<"#", "#", " ", "A">>
LineAppendix == <<"#", "#", " ", "A", "p", "p", "e", "n", "d", "i", "x">>
LineContents ==
    <<"#", "#", " ", "T", "a", "b", "l", "e", " ", "o", "f", " ",
      "C", "o", "n", "t", "e", "n", "t", "s">>
LineStory == <<"#", "#", "#", " ", "U", "S", "-", "1", ":", " ", "T", "?">>
LineNotes == <<"#", "#", "#", " ", "N", "o", "t", "e", "s">>
LineText == <<"x">>
LineMarker == AcMarker
LineBullet == <<"-", " ", "A">>
LineIndented == <<" ", " ", "-", " ", "B">>
LineDash == <<"a", " ", "-", " ", "b">>
LineEmpty == <<>>

\* The lines a document of Spec is made of.
LinePool ==
    {LineEpic, LineAppendix, LineContents, LineStory, LineNotes, LineText}

\* The lines a story body of BodySpec is made of.
BodyPool ==
    {LineMarker, LineBullet, LineIndented, LineDash, LineText, LineEmpty}

SeqsUpTo(S, n) == UNION {[1..k -> S] : k \in 1..n}

\* The files backlog/tasks may hold before main runs.
OldNames ==
    {<<"t", "a", "s", "k", "-", "9", " ", "-", " ", "O", "l", "d", ".", "m", "d">>,
     <<"t", "a", "s", "k", "-", "1", " ", "-", " ", "A", ".", "m", "d">>,
     <<"n", "o", "t", "e", "s", ".", "m", "d">>,
     <<"t", "a", "s", "k", "-", "l", "i", "s", "t", ".", "t", "x", "t">>}

OldRecord ==
    [id |-> 9, title |-> <<"O", "l", "d">>, status |-> "Done", created_date |-> 0,
     labels |-> <<>>, parent |-> None, body |-> <<"o", "l", "d">>]

\* The directories main may find: none, an empty one, one with files of
\* earlier runs and of other origin.
OldDirs ==
    {[f \in D |-> OldRecord] : D \in {{}, OldNames}}

-----------------------------------------------------------------------------
(* The state machine.                                                      *)

Locals ==
    /\ lines = <<>>
    /\ i = 0
    /\ epics = <<>>
    /\ current_epic = 0
    /\ story = NoStory
    /\ task_counter = 0
    /\ epic_ix = 0
    /\ story_ix = 0
    /\ epic_id = 0
    /\ log = <<>>
    /\ scanned = <<>>

Start ==
    /\ pc = "start"
    /\ clock = 0
    /\ run = 1
    /\ fs0 = fs
    /\ snapshot = fs
    /\ Locals

\* Any document of at most MaxLines lines, present or missing, and any of
\* the directories.
Init ==
    /\ sourceExists \in BOOLEAN
    /\ file \in (IF sourceExists THEN SeqsUpTo(LinePool, MaxLines) ELSE {<<>>})
    /\ destExists \in BOOLEAN
    /\ fs \in (IF destExists THEN OldDirs ELSE {[f \in {} |-> OldRecord]})
    /\ Start

\* One epic with one story, whose body is any sequence of at most MaxBody
\* lines; the directory is empty.
BodyInit ==
    /\ sourceExists = TRUE
    /\ file \in {<<LineEpic, LineStory>> \o b : b \in SeqsUpTo(BodyPool, MaxBody)}
    /\ destExists = TRUE
    /\ fs = [f \in {} |-> OldRecord]
    /\ Start

\* main, lines 91-99: the directory is made when missing, and every
\* task-*.md file in it is removed.
Setup ==
    /\ pc = "start"
    /\ destExists' = TRUE
    /\ fs' = ClearDest(fs)
    /\ fs0' = fs
    /\ pc' = "read"
    /\ UNCHANGED <<file, sourceExists, clock, lines, i, epics, current_epic,
                   story, task_counter, epic_ix, story_ix, epic_id, log,
                   scanned, run, snapshot>>

\* parse_user_stories, lines 10-19: open() raises when the file is missing.
ReadSource ==
    /\ pc = "read"
    /\ IF sourceExists
       THEN /\ lines' = file
            /\ pc' = "scan"
       ELSE /\ lines' = lines
            /\ pc' = "failed"
    /\ i' = 0
    /\ epics' = <<>>
    /\ current_epic' = 0
    /\ UNCHANGED <<file, sourceExists, destExists, fs, clock, story,
                   task_counter, epic_ix, story_ix, epic_id, log, scanned,
                   run, fs0, snapshot>>

\* One iteration of the outer loop, lines 20-43 and 53: the line is read,
\* an epic is opened, and a story is begun (the capture follows) or the
\* index steps forward.
ScanLine ==
    /\ pc = "scan"
    /\ i < Len(lines)
    /\ LET line == lines[i + 1]
           opens == EpicMatch(line) /\ ~Excluded(line)
           epics1 == IF opens
                     THEN Append(epics, [name |-> Strip(EpicGroup1(line)),
                                         stories |-> <<>>,
                                         at |-> i])
                     ELSE epics
           current1 == IF opens THEN Len(epics1) ELSE current_epic
       IN /\ epics' = epics1
          /\ current_epic' = current1
          /\ scanned' = Append(scanned, i)
          /\ IF BeginsStory(line, current1)
             THEN /\ story' = [id_code |-> Strip(StoryGroup2(line)),
                               title |-> Strip(StoryGroup3(line)),
                               content |-> <<>>,
                               at |-> i]
                  /\ pc' = "capture"
             ELSE /\ story' = story
                  /\ pc' = "scan"
          /\ i' = i + 1
    /\ UNCHANGED <<file, sourceExists, destExists, fs, clock, lines,
                   task_counter, epic_ix, story_ix, epic_id, log, run, fs0,
                   snapshot>>

\* The capture loop, lines 44-50: a line that is no header is captured.
CaptureLine ==
    /\ pc = "capture"
    /\ i < Len(lines)
    /\ ~IsHeader(lines[i + 1])
    /\ story' = [story EXCEPT !.content = Append(@, lines[i + 1])]
    /\ i' = i + 1
    /\ UNCHANGED <<file, sourceExists, destExists, fs, clock, pc, lines, epics,
                   current_epic, task_counter, epic_ix, story_ix, epic_id, log,
                   scanned, run, fs0, snapshot>>

\* The capture loop without "i -= 1": the header that ends the capture is
\* consumed.
CaptureBreakNoBacktrack ==
    /\ pc = "capture"
    /\ i < Len(lines)
    /\ IsHeader(lines[i + 1])
    /\ pc' = "append"
    /\ UNCHANGED <<file, sourceExists, destExists, fs, clock, lines, i, epics,
                   current_epic, story, task_counter, epic_ix, story_ix,
                   epic_id, log, scanned, run, fs0, snapshot>>

\* The capture loop, lines 46-48: a header ends the capture, and the index
\* steps back.
CaptureBreak ==
    /\ pc = "capture"
    /\ i < Len(lines)
    /\ IsHeader(lines[i + 1])
    /\ i' = i - 1
    /\ pc' = "append"
    /\ UNCHANGED <<file, sourceExists, destExists, fs, clock, lines, epics,
                   current_epic, story, task_counter, epic_ix, story_ix,
                   epic_id, log, scanned, run, fs0, snapshot>>

\* The capture loop, line 44: the document ends the capture.
CaptureExhausted ==
    /\ pc = "capture"
    /\ i >= Len(lines)
    /\ pc' = "append"
    /\ UNCHANGED <<file, sourceExists, destExists, fs, clock, lines, i, epics,
                   current_epic, story, task_counter, epic_ix, story_ix,
                   epic_id, log, scanned, run, fs0, snapshot>>

\* Lines 51-53 without "i += 1" after a capture.
AppendStoryNoStep ==
    /\ pc = "append"
    /\ epics' = [epics EXCEPT ![current_epic].stories = Append(@, story)]
    /\ story' = NoStory
    /\ pc' = "scan"
    /\ UNCHANGED <<file, sourceExists, destExists, fs, clock, lines, i,
                   current_epic, task_counter, epic_ix, story_ix, epic_id, log,
                   scanned, run, fs0, snapshot>>

\* Lines 51-53: the story joins the current epic, and the index steps
\* forward.
AppendStory ==
    /\ pc = "append"
    /\ epics' = [epics EXCEPT ![current_epic].stories = Append(@, story)]
    /\ story' = NoStory
    /\ i' = i + 1
    /\ pc' = "scan"
    /\ UNCHANGED <<file, sourceExists, destExists, fs, clock, lines,
                   current_epic, task_counter, epic_ix, story_ix, epic_id, log,
                   scanned, run, fs0, snapshot>>

\* Lines 20, 55 and 101-103: the outer loop ends, the epics are returned,
\* and the counter is set.
ScanEnd ==
    /\ pc = "scan"
    /\ i >= Len(lines)
    /\ task_counter' = InitialCounter
    /\ epic_ix' = 1
    /\ pc' = "epic"
    /\ UNCHANGED <<file, sourceExists, destExists, fs, clock, lines, i, epics,
                   current_epic, story, story_ix, epic_id, log, scanned, run,
                   fs0, snapshot>>

\* Lines 105-114: the file of the next epic.
EmitEpic ==
    /\ pc = "epic"
    /\ epic_ix <= Len(epics)
    /\ LET epic == epics[epic_ix]
       IN /\ epic_id' = task_counter
          /\ fs' = create_task_file(fs, task_counter, epic.name, EpicBody,
                                    "To Do", None, TRUE, clock)
          /\ log' = Append(log, [kind |-> "Epic", title |-> epic.name,
                                 id |-> task_counter, epic |-> epic_ix,
                                 story |-> 0,
                                 file |-> TaskFilename(task_counter, epic.name)])
    /\ task_counter' = task_counter + 1
    /\ story_ix' = 1
    /\ pc' = "story"
    /\ UNCHANGED <<file, sourceExists, destExists, clock, lines, i, epics,
                   current_epic, story, epic_ix, scanned, run, fs0, snapshot>>

\* Lines 116-152: the file of the next story of the epic.
EmitStory ==
    /\ pc = "story"
    /\ story_ix <= Len(epics[epic_ix].stories)
    /\ LET st == epics[epic_ix].stories[story_ix]
           story_id == StoryId(task_counter, epic_id)
       IN /\ fs' = create_task_file(fs, story_id, FullTitle(st),
                                    StoryText(st.content), "To Do",
                                    Some(epic_id), FALSE, clock)
          /\ log' = Append(log, [kind |-> "Story", title |-> FullTitle(st),
                                 id |-> story_id, epic |-> epic_ix,
                                 story |-> story_ix,
                                 file |-> TaskFilename(story_id, FullTitle(st))])
    /\ task_counter' = task_counter + 1
    /\ story_ix' = story_ix + 1
    /\ UNCHANGED <<file, sourceExists, destExists, clock, pc, lines, i, epics,
                   current_epic, story, epic_ix, epic_id, scanned, run, fs0,
                   snapshot>>

\* Line 116: the stories of the epic are exhausted.
StoriesDone ==
    /\ pc = "story"
    /\ story_ix > Len(epics[epic_ix].stories)
    /\ epic_ix' = epic_ix + 1
    /\ pc' = "epic"
    /\ UNCHANGED <<file, sourceExists, destExists, fs, clock, lines, i, epics,
                   current_epic, story, task_counter, story_ix, epic_id, log,
                   scanned, run, fs0, snapshot>>

\* Line 105: the epics are exhausted, and main returns.
EpicsDone ==
    /\ pc = "epic"
    /\ epic_ix > Len(epics)
    /\ pc' = "done"
    /\ UNCHANGED <<file, sourceExists, destExists, fs, clock, lines, i, epics,
                   current_epic, story, task_counter, epic_ix, story_ix,
                   epic_id, log, scanned, run, fs0, snapshot>>

\* The script is run again on the unchanged document, at the same minute
\* or a later one.
Rerun ==
    /\ pc = "done"
    /\ run < MaxRuns
    /\ run' = run + 1
    /\ snapshot' = fs
    /\ \E d \in {0, 1} : clock' = clock + d
    /\ pc' = "start"
    /\ lines' = <<>>
    /\ i' = 0
    /\ epics' = <<>>
    /\ current_epic' = 0
    /\ story' = NoStory
    /\ task_counter' = 0
    /\ epic_ix' = 0
    /\ story_ix' = 0
    /\ epic_id' = 0
    /\ log' = <<>>
    /\ scanned' = <<>>
    /\ fs0' = fs
    /\ UNCHANGED <<file, sourceExists, destExists, fs>>

Parse ==
    \/ ReadSource
    \/ ScanLine
    \/ CaptureLine
    \/ CaptureExhausted
    \/ AppendStory
    \/ ScanEnd

Emit ==
    \/ EmitEpic
    \/ EmitStory
    \/ StoriesDone
    \/ EpicsDone

Next == Setup \/ Parse \/ CaptureBreak \/ Emit \/ Rerun

Spec == Init /\ [][Next]_vars

BodyNext == Setup \/ Parse \/ Emit

\* The parser alone, on any document of at most MaxLines lines; the program
\* is sequential and takes its next step as long as it has one.
ParseInit ==
    /\ sourceExists = TRUE
    /\ file \in SeqsUpTo(LinePool, MaxLines)
    /\ destExists = TRUE
    /\ fs = [f \in {} |-> OldRecord]
    /\ Start

ParseNext == Setup \/ Parse \/ CaptureBreak

ParseSpec == ParseInit /\ [][ParseNext]_vars /\ WF_vars(ParseNext)

BodySpec == BodyInit /\ [][BodyNext]_vars

-----------------------------------------------------------------------------
(* The vocabulary of the properties.                                       *)

\* The number of # markers a line starts with.
RECURSIVE Depth(_)
Depth(line) ==
    IF line # <<>> /\ Head(line) = "#" THEN 1 + Depth(Tail(line)) ELSE 0

\* A heading of exactly n markers, followed by whitespace.
Level(line, n) ==
    Depth(line) = n /\ Len(line) > n /\ IsSpace(line[n + 1])

\* The text of the line names one of the two excluded sections.
NamesExcluded(line) ==
    Contains(line, TableOfContents) \/ Contains(line, Appendix)

\* The line at index j (0-based, as i in the code).
LineAt(j) == lines[j + 1]

Indices == 0..(Len(lines) - 1)

\* parse_user_stories has returned.
Parsed == pc \in {"epic", "story", "done"}

\* The positions <<e, s>> of the stories of the parsed structure.
StoryPairs ==
    UNION {{<<e, s>> : s \in 1..Len(epics[e].stories)} : e \in 1..Len(epics)}

StoryOf(p) == epics[p[1]].stories[p[2]]

\* The indices of the lines captured into the story at p.
Captured(p) == (StoryOf(p).at + 1)..(StoryOf(p).at + Len(StoryOf(p).content))

\* The index of the first line after index j that starts with two or more
\* markers, or the length of the document when there is none.
Terminator(j) ==
    LET after == {m \in Indices : m > j /\ Depth(LineAt(m)) >= 2}
    IN IF after = {} THEN Len(lines)
       ELSE CHOOSE m \in after : \A n \in after : m <= n

\* The indices of the level-2 headings that open an epic.
Openers == {j \in Indices : Level(LineAt(j), 2) /\ ~NamesExcluded(LineAt(j))}

\* The log entry at n is that of the epic at e (s = 0) or of its story at s.
IsEntry(n, e, s) ==
    /\ n \in 1..Len(log)
    /\ log[n].epic = e
    /\ log[n].story = s
    /\ log[n].kind = (IF s = 0 THEN "Epic" ELSE "Story")

\* The names of the files of the directory that are named task-*.md.
TaskNames(dir) ==
    {f \in DOMAIN dir : /\ Len(f) >= 5
                        /\ SubSeq(f, 1, 5) = <<"t", "a", "s", "k", "-">>
                        /\ Len(f) >= 3
                        /\ From(f, Len(f) - 2) = <<".", "m", "d">>}

\* The directory with the created_date of every file left out.
NoDates(dir) == [f \in DOMAIN dir |-> [dir[f] EXCEPT !.created_date = 0]]

-----------------------------------------------------------------------------
(* C1: after a successful run the identifiers come from one counter that   *)
(* starts at 1 and grows by 1 per file written, in emission order: the     *)
(* n-th file written has the identifier n; an epic that has the identifier *)
(* N and k stories has its stories at N+1 .. N+k in parsed order, the next *)
(* epic has N+k+1, and no epic's identifier lies between an epic's and     *)
(* that of one of its stories.                                             *)
C1_SequentialIds ==
    pc = "done" =>
        /\ Len(log) = Len(epics) + Cardinality(StoryPairs)
        /\ \A n \in 1..Len(log) :
               /\ log[n].id = n
               /\ log[n].file \in DOMAIN fs
               /\ fs[log[n].file].id = n
        /\ \A e \in 1..Len(epics) :
               \E N \in 1..Len(log) :
                   LET k == Len(epics[e].stories)
                   IN /\ IsEntry(N, e, 0)
                      /\ e = 1 => N = 1
                      /\ \A s \in 1..k :
                             /\ IsEntry(N + s, e, s)
                             /\ log[N + s].id = log[N].id + s
                             /\ log[N + s].title = FullTitle(epics[e].stories[s])
                      /\ e < Len(epics) =>
                             /\ IsEntry(N + k + 1, e + 1, 0)
                             /\ log[N + k + 1].id = log[N].id + k + 1
                      /\ \A m \in 1..Len(log) :
                             log[m].kind = "Epic" =>
                                 ~(log[N].id < log[m].id /\ log[m].id <= log[N].id + k)

\* An epic with two stories, followed by another epic, has been emitted.
C1_Witness ==
    /\ pc = "done"
    /\ Len(epics) >= 2
    /\ Len(epics[1].stories) = 2

(* C2: every story file written carries a parent reference, which is the   *)
(* identifier given to the epic under which the story was parsed (the last *)
(* epic opened before the story's heading); no epic file carries one.      *)
C2_ParentReference ==
    \A n \in 1..Len(log) :
        /\ log[n].file \in DOMAIN fs
        /\ log[n].kind = "Epic" => fs[log[n].file].parent = None
        /\ log[n].kind = "Story" =>
               \E m \in 1..Len(log) :
                   /\ IsEntry(m, log[n].epic, 0)
                   /\ fs[log[n].file].parent = <<log[m].id>>
                   /\ fs[log[m].file].id = log[m].id
                   /\ LET e == log[n].epic
                          st == epics[e].stories[log[n].story]
                      IN /\ epics[e].at \in Openers
                         /\ epics[e].at < st.at
                         /\ \A j \in Openers : j < st.at => j <= epics[e].at

\* A story of the first epic and a story of a later epic have been written.
C2_Witness ==
    /\ pc = "done"
    /\ \E n \in 1..Len(log) : log[n].kind = "Story" /\ log[n].epic = 1
    /\ \E n \in 1..Len(log) : log[n].kind = "Story" /\ log[n].epic = 2

(* C3: after a successful run the files named task-*.md in the destination *)
(* are exactly the files this run generated, whatever the directory held   *)
(* before, and a second run on the unchanged document leaves the same      *)
(* files with the same contents, created_date apart.                       *)
C3_FullReplace ==
    pc = "done" =>
        /\ TaskNames(fs) = {log[n].file : n \in 1..Len(log)}
        /\ \A n \in 1..Len(log) :
               /\ fs[log[n].file].id = log[n].id
               /\ fs[log[n].file].title = log[n].title
        /\ run >= 2 =>
               /\ DOMAIN fs = DOMAIN snapshot
               /\ NoDates(fs) = NoDates(snapshot)

\* A second run, at a later minute, has ended in a directory that held a
\* stale task file before the first run.
C3_Witness ==
    /\ pc = "done"
    /\ run = 2
    /\ clock = 1
    /\ Len(log) >= 2
    /\ <<"n", "o", "t", "e", "s", ".", "m", "d">> \in DOMAIN fs

(* C4: a level-3 heading of the story shape met while no epic is open is   *)
(* skipped: it makes no story, and the outer loop goes on with the very    *)
(* next line, so that no line up to the first epic is captured into a      *)
(* story; a document without a level-2 heading parses to no epic, and no   *)
(* file is written for it.                                                 *)
C4_StoryWithoutEpic ==
    /\ Parsed =>
           /\ \A j \in Indices :
                  (StoryMatch(LineAt(j)) /\ \A o \in Openers : o > j) =>
                      /\ \A p \in StoryPairs :
                             StoryOf(p).at # j /\ j \notin Captured(p)
                      /\ j + 1 < Len(lines) =>
                             /\ \E n \in 1..Len(scanned) : scanned[n] = j + 1
                             /\ \A p \in StoryPairs : (j + 1) \notin Captured(p)
           /\ (\A j \in Indices : ~Level(LineAt(j), 2)) => epics = <<>>
    /\ (pc = "done" /\ \A j \in Indices : ~Level(LineAt(j), 2)) =>
           /\ log = <<>>
           /\ TaskNames(fs) = {}

\* A document without a level-2 heading, in which a line follows a story
\* heading, has been processed.
C4_Witness ==
    /\ pc = "done"
    /\ \A j \in Indices : ~Level(LineAt(j), 2)
    /\ \E j \in Indices :
           /\ StoryMatch(LineAt(j))
           /\ j + 1 < Len(lines)
           /\ LineAt(j + 1) = LineText
    /\ <<"t", "a", "s", "k", "-", "9", " ", "-", " ", "O", "l", "d", ".", "m", "d">>
           \in DOMAIN fs0

\* The line at index j is a level-3 heading that is not of the story shape
\* and lies in the capture window of the story at p: no level-2 heading and
\* no heading of the story shape lies between the story's heading and it.
InWindow(p, j) ==
    /\ j \in Indices
    /\ j > StoryOf(p).at
    /\ Level(LineAt(j), 3)
    /\ ~StoryMatch(LineAt(j))
    /\ \A m \in (StoryOf(p).at + 1)..(j - 1) :
           ~Level(LineAt(m), 2) /\ ~StoryMatch(LineAt(m))

(* C5, as stated: a level-3 heading that is not of the story shape and     *)
(* lies in the capture window of a story is appended to the story's        *)
(* content, and the capture goes on past it.                               *)
C5_Original ==
    Parsed =>
        \A p \in StoryPairs : \A j \in Indices :
            InWindow(p, j) =>
                /\ j \in Captured(p)
                /\ StoryOf(p).content[j - StoryOf(p).at] = LineAt(j)
                /\ (j + 1 < Len(lines) /\ Depth(LineAt(j + 1)) < 2) =>
                       (j + 1) \in Captured(p)

(* C5, amended: a level-3 heading that is not of the story shape ends the  *)
(* capture of the story it follows, as every line that starts with ## does:*)
(* the content of the story is the lines between the story's heading and   *)
(* the first such heading, the heading is appended to no story and opens   *)
(* neither an epic nor a story, and the line after it is captured into no  *)
(* story.                                                                  *)
C5_Level3EndsCapture ==
    Parsed =>
        \A p \in StoryPairs : \A j \in Indices :
            (InWindow(p, j) /\ \A m \in (StoryOf(p).at + 1)..(j - 1) :
                                   ~InWindow(p, m)) =>
                /\ StoryOf(p).content =
                       SubSeq(lines, StoryOf(p).at + 2, j)
                /\ \A q \in StoryPairs :
                       /\ j \notin Captured(q)
                       /\ StoryOf(q).at # j
                       /\ (j + 1) \notin Captured(q)
                /\ \A e \in 1..Len(epics) : epics[e].at # j
                /\ \E n \in 1..Len(scanned) : scanned[n] = j

\* A story heading, then a level-3 heading that is not of the story shape,
\* then a line of text.
C5_Witness ==
    /\ pc = "done"
    /\ \E p \in StoryPairs :
           /\ InWindow(p, StoryOf(p).at + 1)
           /\ StoryOf(p).at + 2 < Len(lines)
           /\ LineAt(StoryOf(p).at + 2) = LineText

\* The content of the story at p is the lines after its heading up to, not
\* including, its terminator; the terminator, when it is a line, is read by
\* the outer loop exactly once; when it is of the story shape it is the
\* next story of the same epic.
Window(p) ==
    LET t == Terminator(StoryOf(p).at)
    IN /\ StoryOf(p).content = SubSeq(lines, StoryOf(p).at + 2, t)
       /\ t < Len(lines) =>
              /\ Cardinality({n \in 1..Len(scanned) : scanned[n] = t}) = 1
              /\ StoryMatch(LineAt(t)) =>
                     /\ p[2] < Len(epics[p[1]].stories)
                     /\ epics[p[1]].stories[p[2] + 1].at = t

(* C6, as stated: the heading that ends a story's capture is not consumed; *)
(* the content is the lines up to it, it is read by the outer loop once, a *)
(* level-2 heading directly after a story's content opens a new epic, and  *)
(* a heading of the story shape there is the next story of the same epic.  *)
C6_Original ==
    Parsed =>
        \A p \in StoryPairs :
            /\ Window(p)
            /\ LET t == Terminator(StoryOf(p).at)
               IN (t < Len(lines) /\ Level(LineAt(t), 2)) =>
                      \E e \in 1..Len(epics) :
                          epics[e].at = t /\ e > p[1]

(* C6, amended: as stated, except that a level-2 heading directly after a  *)
(* story's content opens a new epic unless its text contains "Table of     *)
(* Contents" or "Appendix"; such a heading opens none, and the epic of the *)
(* story stays the current one.                                            *)
C6_TerminatorNotConsumed ==
    Parsed =>
        \A p \in StoryPairs :
            /\ Window(p)
            /\ LET t == Terminator(StoryOf(p).at)
               IN (t < Len(lines) /\ Level(LineAt(t), 2)) =>
                      IF NamesExcluded(LineAt(t))
                      THEN \A e \in 1..Len(epics) : epics[e].at # t
                      ELSE /\ p[1] < Len(epics)
                           /\ epics[p[1] + 1].at = t
                           /\ p[2] = Len(epics[p[1]].stories)

\* Two stories of one epic whose headings are consecutive lines, the second
\* directly followed by a level-2 heading that opened the next epic.
C6_Witness ==
    /\ pc = "done"
    /\ Len(epics) = 2
    /\ Len(epics[1].stories) = 2
    /\ epics[1].stories[2].at = epics[1].stories[1].at + 1
    /\ epics[2].at = epics[1].stories[2].at + 1

\* The line with its leading whitespace kept and its first "- " made "- [ ] ".
AsCheckItem(line) ==
    LET ws == Len(line) - Len(LStrip(line))
    IN SubSeq(line, 1, ws) \o <<"-", " ", "[", " ", "]", " ">>
       \o From(line, ws + 3)

\* The trimmed text of the line starts with "- ".
IsBulletLine(line) ==
    LET t == Strip(line) IN Len(t) >= 2 /\ t[1] = "-" /\ t[2] = " "

(* C7: the body written for a story has one line per line of the trimmed   *)
(* content, in order: a line that contains the marker is the heading       *)
(* "## Acceptance Criteria"; any other line whose trimmed text starts with *)
(* "- " is made a "- [ ] " item when a marker line precedes it in the body *)
(* and is unchanged when none does; every other line is unchanged.         *)
C7_BodyTransformation ==
    \A n \in 1..Len(log) :
        log[n].kind = "Story" =>
            LET inp == TrimmedLines(epics[log[n].epic].stories[log[n].story].content)
                out == Split(fs[log[n].file].body)
            IN /\ Len(out) = Len(inp)
               /\ \A k \in 1..Len(inp) :
                      IF Contains(inp[k], AcMarker)
                      THEN out[k] = AcHeading
                      ELSE IF IsBulletLine(inp[k])
                              /\ \E m \in 1..(k - 1) : Contains(inp[m], AcMarker)
                           THEN out[k] = AsCheckItem(inp[k])
                           ELSE out[k] = inp[k]

\* A body with a bullet before the marker and, after it, a bullet behind a
\* line that is none.
C7_Witness ==
    /\ pc = "done"
    /\ Len(log) = 2
    /\ \E a, b, c, d \in 1..Len(lines) :
           /\ a < b /\ b < c /\ c < d
           /\ IsBulletLine(lines[a])
           /\ lines[b] = LineMarker
           /\ lines[c] = LineText
           /\ lines[d] = LineIndented

\* The directory the run found, without its files named task-*.md.
Cleared(dir) == [f \in (DOMAIN dir) \ TaskNames(dir) |-> dir[f]]

(* C8, as stated: the removal of the task-*.md files and every write       *)
(* happen only after the parser has returned: until then, and in a run     *)
(* that failed to read the source, the directory is as the run found it.   *)
C8_Original ==
    pc \in {"read", "scan", "capture", "append", "failed"} => fs = fs0

(* C8, amended: every write happens only after the parser has returned,    *)
(* but the task-*.md files are removed before the source is read: until    *)
(* the parser has returned, and in a run that failed to read the source,   *)
(* the directory is the one the run found without its task-*.md files,     *)
(* and no file has been written.                                           *)
C8_WritesAfterParsing ==
    /\ pc = "start" => fs = fs0
    /\ pc \in {"read", "scan", "capture", "append", "failed"} =>
           /\ fs = Cleared(fs0)
           /\ log = <<>>

\* A run that failed to read the source, after it removed task files.
C8_Witness ==
    /\ pc = "failed"
    /\ TaskNames(fs0) # {}
    /\ TaskNames(fs) = {}

(* C9: a level-2 heading that names "Table of Contents" or "Appendix"      *)
(* makes no epic and leaves the current epic as it is: the epics are       *)
(* exactly the other level-2 headings, in order, every heading of the      *)
(* story shape after the first of them is a story of the last of them      *)
(* before it, and every story belongs to exactly one epic.                 *)
C9_ExcludedHeadings ==
    Parsed =>
        /\ {epics[e].at : e \in 1..Len(epics)} = Openers
        /\ \A e \in 1..Len(epics) : \A d \in 1..Len(epics) :
               e < d => epics[e].at < epics[d].at
        /\ \A p \in StoryPairs :
               /\ StoryMatch(LineAt(StoryOf(p).at))
               /\ epics[p[1]].at < StoryOf(p).at
               /\ \A o \in Openers : o < StoryOf(p).at => o <= epics[p[1]].at
               /\ \A q \in StoryPairs : StoryOf(q).at = StoryOf(p).at => q = p
               /\ p[2] > 1 => epics[p[1]].stories[p[2] - 1].at < StoryOf(p).at
        /\ \A j \in Indices :
               StoryMatch(LineAt(j)) =>
                   ((\E p \in StoryPairs : StoryOf(p).at = j)
                        <=> (\E o \in Openers : o < j))

\* A story whose heading follows an excluded level-2 heading that follows
\* the heading of its epic.
C9_Witness ==
    /\ pc = "done"
    /\ \E p \in StoryPairs : \E j \in Indices :
           /\ epics[p[1]].at < j
           /\ j < StoryOf(p).at
           /\ Level(LineAt(j), 2)
           /\ NamesExcluded(LineAt(j))

\* The indices the outer loop has read strictly increase, and every
\* capture is past the heading of its story.
ScanAdvances ==
    /\ \A n \in 1..Len(scanned) : \A m \in 1..Len(scanned) :
           n < m => scanned[n] < scanned[m]
    /\ \A n \in 1..Len(scanned) : scanned[n] < Len(lines)
    /\ pc = "scan" => \A n \in 1..Len(scanned) : scanned[n] < i
    /\ pc = "capture" => i > story.at
    /\ pc = "append" => i >= story.at /\ scanned[Len(scanned)] = story.at

(* C10: the parser terminates on every document: the index of the outer    *)
(* loop strictly increases from one iteration to the next, also after the  *)
(* step back that ends a capture, so no line is read twice by the outer    *)
(* loop, and the loop ends and the parser returns.                         *)
C10_ParserTerminates == []ScanAdvances /\ <>(pc = "epic" /\ i >= Len(lines))

\* The parser has returned after a capture that a header ended.
C10_Witness ==
    /\ pc = "epic"
    /\ \E p \in StoryPairs :
           /\ Len(StoryOf(p).content) >= 1
           /\ Terminator(StoryOf(p).at) < Len(lines)
    /\ Len(scanned) < Len(lines)

====
